---- MODULE Spec2Model ----
(***************************************************************************)
(* Terminal snake game (snake_game.py): the SnakeGame object's fields and  *)
(* its two state-changing methods, handle_input and update_snake, called   *)
(* in any order until handle_input returns False (the run loop breaks).    *)
(* Positions are <<row, column>> pairs, as the (y, x) tuples of the code.  *)
(*                                                                         *)
(* Spec     the two methods called in any order.                           *)
(* RunSpec  main and the loop of run: one handle_input, one update_snake,  *)
(*          one draw_game per iteration, with interrupts and failures of   *)
(*          the screen.                                                    *)
(* FoodSpec the retry loop of generate_food, one random draw per step.     *)
(* MainSpec main from its test of the terminal size on, on terminals of    *)
(*          about the smallest size it accepts, for the first ticks.       *)
(***************************************************************************)
EXTENDS Integers, Sequences, FiniteSets, TLC

\* ---------------------------------------------------------------- bounds

\* The screen stdscr.getmaxyx() reports, in lines and columns: the smallest on
\* which reset_game puts the whole snake off the walls (game_height // 2 >= 1
\* and game_width // 2 - 2 >= 1) and the game area has more than one row.
ScreenLines == 7
ScreenColumns == 8
\* Ticks that eat are cut off once the score has reached MaxScore.
MaxScore == 70
\* MainSpec: the largest terminal os.get_terminal_size() reports, and the
\* number of calls of update_snake after which run is followed no further.
MaxLines == 11
MaxColumns == 41
MaxTicks == 3

\* main: the terminal must have at least 40 columns and 10 lines.
MinColumns == 40
MinLines == 10

\* ------------------------------------------------------------ directions

Direction == {"UP", "DOWN", "LEFT", "RIGHT"}

\* Direction.value: the (dy, dx) movement vector of a direction.
Delta(d) ==
  CASE d = "UP" -> <<-1, 0>>
    [] d = "DOWN" -> <<1, 0>>
    [] d = "LEFT" -> <<0, -1>>
    [] d = "RIGHT" -> <<0, 1>>

\* ------------------------------------------------------------------ keys

\* curses key codes and ord() of the letters handle_input compares with.
KEY_DOWN == 258
KEY_UP == 259
KEY_LEFT == 260
KEY_RIGHT == 261
NoKey == -1
OtherKey == 120

QuitKeys == {113, 81}
RestartKeys == {114, 82}
UpKeys == {KEY_UP, 119, 87}
DownKeys == {KEY_DOWN, 115, 83}
LeftKeys == {KEY_LEFT, 97, 65}
RightKeys == {KEY_RIGHT, 100, 68}
MoveKeys == UpKeys \cup DownKeys \cup LeftKeys \cup RightKeys
Keys == QuitKeys \cup RestartKeys \cup MoveKeys \cup {NoKey, OtherKey}

\* ----------------------------------------------------------------- state

VARIABLES
  height, width,            \* stdscr.getmaxyx()
  game_height, game_width,  \* the game area
  snake,                    \* sequence of positions, head first
  direction,
  food,
  game_over,
  score,
  high_score,
  timeout,                  \* the value last given to stdscr.timeout
  running,                  \* FALSE once handle_input has returned False
  op,                       \* the branch the last call took
  pc,                       \* where the loop of run stands
  calls,                    \* the calls made in the current iteration of run
  ending,                   \* how the process came to its end
  exit_status,              \* the exit status of the process, -1 while it runs
  gen,                      \* where a call of generate_food stands
  draw,                     \* the cell generate_food drew last
  retried,                  \* TRUE once generate_food has drawn a snake cell
  ticks                     \* MainSpec: the calls of update_snake made so far

game == <<snake, direction, food, game_over, score, high_score>>
screen == <<height, width, game_height, game_width>>
driver == <<pc, calls, ending, exit_status>>
sampler == <<gen, draw, retried>>
vars == <<height, width, game_height, game_width, snake, direction, food,
          game_over, score, high_score, timeout, running, op,
          pc, calls, ending, exit_status, gen, draw, retried, ticks>>

\* --------------------------------------------------------------- helpers

Cells(s) == {s[i] : i \in 1..Len(s)}

\* The draws with game_height - 2 and game_width - 2 for the upper ends.
FoodRangeShort(gh, gw) == (1..(gh - 2)) \X (1..(gw - 2))

\* The cells random.randint(1, game_height - 1), random.randint(1, game_width - 1)
\* can draw.
FoodRange(gh, gw) == (1..(gh - 1)) \X (1..(gw - 1))

\* generate_food returning its first draw, the snake not looked at.
generate_food_unchecked(s, gh, gw) == FoodRange(gh, gw)

\* generate_food: the positions the retry loop can return for snake s; none
\* when the snake covers every cell of the range (the loop never ends).
generate_food(s, gh, gw) == FoodRange(gh, gw) \ Cells(s)

\* The start snake laid out from column 2 instead of game_width // 2.
StartSnakeAtLeft(gh, gw) ==
  << <<gh \div 2, 2>>, <<gh \div 2, 1>>, <<gh \div 2, 0>> >>

\* reset_game: the three-cell snake in the middle of the game area.
StartSnake(gh, gw) ==
  << <<gh \div 2, gw \div 2>>,
     <<gh \div 2, (gw \div 2) - 1>>,
     <<gh \div 2, (gw \div 2) - 2>> >>

\* The new head with head_y written for head_x.
NewHeadRowTwice(s, d) == <<s[1][1] + Delta(d)[1], s[1][1] + Delta(d)[2]>>

\* update_snake: new_head = (head_y + dy, head_x + dx).
NewHead(s, d) == <<s[1][1] + Delta(d)[1], s[1][2] + Delta(d)[2]>>

\* The wall test with < and > for <= and >=.
WallCollisionStrict(p, gh, gw) ==
  p[1] < 0 \/ p[1] > gh \/ p[2] < 0 \/ p[2] > gw

\* update_snake: the wall collision test.
WallCollision(p, gh, gw) ==
  p[1] <= 0 \/ p[1] >= gh \/ p[2] <= 0 \/ p[2] >= gw

\* The self collision test left out.
SelfCollisionNever(p, s) == FALSE

\* The self collision test on the snake without its tail, self.snake[:-1].
SelfCollisionButTail(p, s) == p \in Cells(SubSeq(s, 1, Len(s) - 1))

\* update_snake: the self collision test, new_head in self.snake.
SelfCollision(p, s) == p \in Cells(s)

\* The high score overwritten by the score, the comparison left out.
HighScoreOverwritten(sc, hs) == sc

\* The high score never updated.
HighScoreKept(sc, hs) == hs

\* update_snake: if self.score > self.high_score: self.high_score = self.score.
NewHighScore(sc, hs) == IF sc > hs THEN sc ELSE hs

\* update_snake: max(50, 100 - (self.score // 50)).
NewTimeout(sc) == IF 100 - (sc \div 50) > 50 THEN 100 - (sc \div 50) ELSE 50

\* The tail never removed.
PopNothing(s) == s

\* self.snake.pop(0): the list without its first element.
PopFirst(s) == SubSeq(s, 2, Len(s))

\* self.snake.pop(): the list without its last element.
Pop(s) == SubSeq(s, 1, Len(s) - 1)

\* handle_input: the four movement branches. A key of a branch is accepted
\* unless the current direction is the one the branch tests against.
MoveAccepted(key, d) ==
  CASE key \in UpKeys -> d # "DOWN"
    [] key \in DownKeys -> d # "UP"
    [] key \in LeftKeys -> d # "RIGHT"
    [] key \in RightKeys -> d # "LEFT"

\* The movement branches without their tests of the current direction.
MoveDirectionUnchecked(key, d) ==
  CASE key \in UpKeys -> "UP"
    [] key \in DownKeys -> "DOWN"
    [] key \in LeftKeys -> "LEFT"
    [] key \in RightKeys -> "RIGHT"

\* handle_input: the direction after a movement key.
MoveDirection(key, d) ==
  CASE key \in UpKeys -> IF d # "DOWN" THEN "UP" ELSE d
    [] key \in DownKeys -> IF d # "UP" THEN "DOWN" ELSE d
    [] key \in LeftKeys -> IF d # "RIGHT" THEN "LEFT" ELSE d
    [] key \in RightKeys -> IF d # "LEFT" THEN "RIGHT" ELSE d

\* A restart key calling reset_game whatever self.game_over is.
RestartAlways(over) == TRUE

\* handle_input: a restart key calls reset_game only if self.game_over.
RestartEffective(over) == over

\* ------------------------------------------------------------------ init

\* SnakeGame.__init__, which ends in reset_game and stdscr.timeout(100).
Construct ==
  /\ height = ScreenLines
  /\ width = ScreenColumns
  /\ game_height = height - 4
  /\ game_width = width - 2
  /\ snake = StartSnake(game_height, game_width)
  /\ direction = "RIGHT"
  /\ food \in generate_food(snake, game_height, game_width)
  /\ game_over = FALSE
  /\ score = 0
  /\ high_score = 0
  /\ timeout = 100
  /\ running = TRUE
  /\ op = "init"

\* No call of generate_food under way.
SamplerIdle ==
  /\ gen = "idle"
  /\ draw = <<0, 0>>
  /\ retried = FALSE

\* The object constructed, its methods not yet driven by run.
Init ==
  /\ Construct
  /\ pc = "none"
  /\ calls = <<>>
  /\ ending = "none"
  /\ exit_status = -1
  /\ SamplerIdle
  /\ ticks = 0

\* --------------------------------------------------------------- actions

\* reset_game also setting self.high_score = 0.
reset_game_clears_high ==
  /\ snake' = StartSnake(game_height, game_width)
  /\ direction' = "RIGHT"
  /\ food' \in generate_food(snake', game_height, game_width)
  /\ game_over' = FALSE
  /\ score' = 0
  /\ high_score' = 0
  /\ UNCHANGED <<timeout, running, screen>>

\* reset_game without self.score = 0.
reset_game_keeps_score ==
  /\ snake' = StartSnake(game_height, game_width)
  /\ direction' = "RIGHT"
  /\ food' \in generate_food(snake', game_height, game_width)
  /\ game_over' = FALSE
  /\ UNCHANGED <<score, high_score, timeout, running, screen>>

\* reset_game calling generate_food before it has replaced self.snake.
reset_game_food_first ==
  /\ snake' = StartSnake(game_height, game_width)
  /\ direction' = "RIGHT"
  /\ food' \in generate_food(snake, game_height, game_width)
  /\ game_over' = FALSE
  /\ score' = 0
  /\ UNCHANGED <<high_score, timeout, running, screen>>

\* reset_game, called by handle_input on a restart key.
reset_game ==
  /\ snake' = StartSnake(game_height, game_width)
  /\ direction' = "RIGHT"
  /\ food' \in generate_food(snake', game_height, game_width)
  /\ game_over' = FALSE
  /\ score' = 0
  /\ UNCHANGED <<high_score, timeout, running, screen>>

\* handle_input with the movement branches under a plain else, game over or not.
handle_input_any_time(key) ==
  /\ running
  /\ op # "spin"
  /\ IF key \in QuitKeys
       THEN /\ running' = FALSE
            /\ op' = "quit"
            /\ UNCHANGED <<game, timeout, screen>>
     ELSE IF key \in RestartKeys
       THEN IF RestartEffective(game_over)
              THEN reset_game /\ op' = "reset"
              ELSE op' = "ignored" /\ UNCHANGED <<game, timeout, running, screen>>
     ELSE IF key \in MoveKeys
       THEN /\ direction' = MoveDirection(key, direction)
            /\ op' = IF MoveAccepted(key, direction) THEN "turn" ELSE "refused"
            /\ UNCHANGED <<snake, food, game_over, score, high_score,
                           timeout, running, screen>>
     ELSE /\ op' = "nokey"
          /\ UNCHANGED <<game, timeout, running, screen>>

\* handle_input with getch() returning key.
handle_input(key) ==
  /\ running
  /\ op # "spin"
  /\ IF key \in QuitKeys
       THEN /\ running' = FALSE
            /\ op' = "quit"
            /\ UNCHANGED <<game, timeout, screen>>
     ELSE IF key \in RestartKeys
       THEN IF RestartEffective(game_over)
              THEN reset_game /\ op' = "reset"
              ELSE op' = "ignored" /\ UNCHANGED <<game, timeout, running, screen>>
     ELSE IF ~game_over /\ key \in MoveKeys
       THEN /\ direction' = MoveDirection(key, direction)
            /\ op' = IF MoveAccepted(key, direction) THEN "turn" ELSE "refused"
            /\ UNCHANGED <<snake, food, game_over, score, high_score,
                           timeout, running, screen>>
     ELSE /\ op' = "nokey"
          /\ UNCHANGED <<game, timeout, running, screen>>

\* move_snake with generate_food called on every tick that moves, eaten or not.
move_snake_refood ==
  LET new_head == NewHead(snake, direction) IN
    IF WallCollision(new_head, game_height, game_width)
      THEN /\ game_over' = TRUE
           /\ high_score' = NewHighScore(score, high_score)
           /\ op' = "wall"
           /\ UNCHANGED <<snake, direction, food, score, timeout, running, screen>>
    ELSE IF SelfCollision(new_head, snake)
      THEN /\ game_over' = TRUE
           /\ high_score' = NewHighScore(score, high_score)
           /\ op' = "self"
           /\ UNCHANGED <<snake, direction, food, score, timeout, running, screen>>
    ELSE IF new_head = food
      THEN /\ score < MaxScore
           /\ snake' = <<new_head>> \o snake
           /\ score' = score + 10
           /\ IF generate_food(snake', game_height, game_width) = {}
                THEN \* generate_food never returns: the call is stuck in it
                     /\ op' = "spin"
                     /\ UNCHANGED <<food, timeout>>
                ELSE /\ food' \in generate_food(snake', game_height, game_width)
                     /\ timeout' = NewTimeout(score')
                     /\ op' = "eat"
           /\ UNCHANGED <<direction, game_over, high_score, running, screen>>
    ELSE /\ snake' = Pop(<<new_head>> \o snake)
         /\ food' \in generate_food(snake', game_height, game_width)
         /\ op' = "move"
         /\ UNCHANGED <<direction, game_over, score, high_score,
                        timeout, running, screen>>

\* update_snake past its first test: the move, the collisions, the food.
move_snake ==
  LET new_head == NewHead(snake, direction) IN
    IF WallCollision(new_head, game_height, game_width)
      THEN /\ game_over' = TRUE
           /\ high_score' = NewHighScore(score, high_score)
           /\ op' = "wall"
           /\ UNCHANGED <<snake, direction, food, score, timeout, running, screen>>
    ELSE IF SelfCollision(new_head, snake)
      THEN /\ game_over' = TRUE
           /\ high_score' = NewHighScore(score, high_score)
           /\ op' = "self"
           /\ UNCHANGED <<snake, direction, food, score, timeout, running, screen>>
    ELSE IF new_head = food
      THEN /\ score < MaxScore
           /\ snake' = <<new_head>> \o snake
           /\ score' = score + 10
           /\ IF generate_food(snake', game_height, game_width) = {}
                THEN \* generate_food never returns: the call is stuck in it
                     /\ op' = "spin"
                     /\ UNCHANGED <<food, timeout>>
                ELSE /\ food' \in generate_food(snake', game_height, game_width)
                     /\ timeout' = NewTimeout(score')
                     /\ op' = "eat"
           /\ UNCHANGED <<direction, game_over, high_score, running, screen>>
    ELSE /\ snake' = Pop(<<new_head>> \o snake)
         /\ op' = "move"
         /\ UNCHANGED <<direction, food, game_over, score, high_score,
                        timeout, running, screen>>

\* update_snake without its first test, if self.game_over: return.
update_snake_no_return ==
  /\ running
  /\ op # "spin"
  /\ move_snake

\* update_snake.
update_snake ==
  /\ running
  /\ op # "spin"
  /\ IF game_over
       THEN op' = "frozen" /\ UNCHANGED <<game, timeout, running, screen>>
       ELSE move_snake

Next ==
  \/ \E key \in Keys : handle_input(key) /\ UNCHANGED <<driver, sampler, ticks>>
  \/ update_snake /\ UNCHANGED <<driver, sampler, ticks>>

Spec == Init /\ [][Next]_vars

\* ------------------------------------------------------- main and run

\* run: if not self.handle_input(): break, with skipping update_snake and
\* with no break as the two slips of it.
AfterInputSkipsUpdate(continue) == IF continue THEN "draw" ELSE "exited"

AfterInputNoBreak(continue) == "update"

AfterInput(continue) == IF continue THEN "update" ELSE "exited"

\* main entered run with the object constructed.
RunInit ==
  /\ Construct
  /\ pc = "input"
  /\ calls = <<>>
  /\ ending = "none"
  /\ exit_status = -1
  /\ SamplerIdle
  /\ ticks = 0

\* run: the call of handle_input that opens an iteration. On False the loop
\* breaks, run, curses.wrapper and main return and the process ends with
\* status 0.
run_input ==
  /\ pc = "input"
  /\ \E key \in Keys : handle_input(key)
  /\ calls' = <<"poll">>
  /\ pc' = AfterInput(running')
  /\ IF pc' = "exited"
       THEN ending' = "quit" /\ exit_status' = 0
       ELSE UNCHANGED <<ending, exit_status>>
  /\ UNCHANGED sampler

\* run: the call of update_snake; it does not return when generate_food
\* finds no free cell.
run_update ==
  /\ pc = "update"
  /\ update_snake
  /\ calls' = Append(calls, "tick")
  /\ pc' = IF op' = "spin" THEN "update" ELSE "draw"
  /\ UNCHANGED <<ending, exit_status, sampler>>

\* run: draw_game, which only reads the game, and time.sleep(0.01).
run_draw ==
  /\ pc = "draw"
  /\ calls' = Append(calls, "render")
  /\ pc' = "input"
  /\ UNCHANGED <<game, timeout, running, screen, op, ending, exit_status, sampler>>

\* main: KeyboardInterrupt raised anywhere in the loop is caught, a message
\* printed, and main returns.
interrupt ==
  /\ pc \in {"input", "update", "draw"}
  /\ pc' = "exited"
  /\ ending' = "interrupt"
  /\ exit_status' = 0
  /\ UNCHANGED <<game, timeout, running, screen, op, calls, sampler>>

\* main: any other exception, raised by getch or by the drawing calls, is
\* caught under except Exception, two messages are printed, and main returns;
\* no sys.exit follows, so the process ends with status 0.
screen_failure ==
  /\ pc \in {"input", "draw"}
  /\ pc' = "exited"
  /\ ending' = "error"
  /\ exit_status' = 0
  /\ UNCHANGED <<game, timeout, running, screen, op, calls, sampler>>

RunNext ==
  \/ run_input /\ UNCHANGED ticks
  \/ run_update /\ UNCHANGED ticks
  \/ run_draw /\ UNCHANGED ticks
  \/ interrupt /\ UNCHANGED ticks
  \/ screen_failure /\ UNCHANGED ticks

RunSpec == RunInit /\ [][RunNext]_vars

\* ------------------------------------------------------------------ main

\* main: if size.columns < 40 or size.lines < 10.
TooSmall(lines, columns) == columns < MinColumns \/ lines < MinLines

\* main has read os.get_terminal_size(); no screen and no game exist yet.
\* height and width hold the lines and columns of the terminal, which is
\* what stdscr.getmaxyx() reports once curses.wrapper has made the screen.
MainInit ==
  /\ height \in (MinLines - 1)..MaxLines
  /\ width \in (MinColumns - 1)..MaxColumns
  /\ game_height = 0
  /\ game_width = 0
  /\ snake = <<>>
  /\ direction = "RIGHT"
  /\ food = <<0, 0>>
  /\ game_over = FALSE
  /\ score = 0
  /\ high_score = 0
  /\ timeout = -1
  /\ running = TRUE
  /\ op = "none"
  /\ pc = "main"
  /\ calls = <<>>
  /\ ending = "none"
  /\ exit_status = -1
  /\ SamplerIdle
  /\ ticks = 0

\* main: on a terminal that is too small a message is printed and main
\* returns; otherwise curses.wrapper makes the screen, SnakeGame.__init__
\* builds the game on it and run is entered.
main_start ==
  /\ pc = "main"
  /\ IF TooSmall(height, width)
       THEN /\ pc' = "exited"
            /\ ending' = "small"
            /\ exit_status' = 0
            /\ UNCHANGED <<game, timeout, running, screen, op, calls>>
       ELSE /\ game_height' = height - 4
            /\ game_width' = width - 2
            /\ snake' = StartSnake(game_height', game_width')
            /\ direction' = "RIGHT"
            /\ food' \in generate_food(snake', game_height', game_width')
            /\ game_over' = FALSE
            /\ score' = 0
            /\ high_score' = 0
            /\ timeout' = 100
            /\ op' = "init"
            /\ pc' = "input"
            /\ UNCHANGED <<height, width, running, calls, ending, exit_status>>
  /\ UNCHANGED sampler

MainNext ==
  \/ main_start /\ UNCHANGED ticks
  \/ run_input /\ UNCHANGED ticks
  \/ ticks < MaxTicks /\ run_update /\ ticks' = ticks + 1
  \/ run_draw /\ UNCHANGED ticks
  \/ interrupt /\ UNCHANGED ticks
  \/ screen_failure /\ UNCHANGED ticks

MainSpec == MainInit /\ [][MainNext]_vars

\* ------------------------------------------------- generate_food's loop

\* The cells inside the walls, by the wall test of update_snake.
Inside(gh, gw) ==
  {p \in (0..gh) \X (0..gw) : ~WallCollision(p, gh, gw)}

\* The snakes of n cells a game can hold when generate_food is called: the
\* chains of n cells inside the walls, each cell added at the head as a tick
\* that eats adds it, past the wall test and the self collision test.
RECURSIVE Snakes(_, _, _)
Snakes(n, gh, gw) ==
  IF n = 1
    THEN {<<p>> : p \in Inside(gh, gw)}
    ELSE UNION {
           {<<NewHead(s, d)>> \o s :
              d \in {e \in Direction :
                       /\ ~WallCollision(NewHead(s, e), gh, gw)
                       /\ ~SelfCollision(NewHead(s, e), s)}}
           : s \in Snakes(n - 1, gh, gw)}

SnakeInputs(gh, gw) ==
  UNION {Snakes(n, gh, gw) : n \in 3..Cardinality(Inside(gh, gw))}

\* Every cell a draw could name on the largest screen.
AllCells == (0..ScreenLines) \X (0..ScreenColumns)

\* update_snake has inserted the new head, which was the food, and calls
\* generate_food.
FoodInit ==
  /\ height = ScreenLines
  /\ width = ScreenColumns
  /\ game_height = height - 4
  /\ game_width = width - 2
  /\ snake \in SnakeInputs(game_height, game_width)
  /\ direction = "RIGHT"
  /\ food = snake[1]
  /\ game_over = FALSE
  /\ score = 10 * (Len(snake) - 3)
  /\ high_score = 0
  /\ timeout = 100
  /\ running = TRUE
  /\ op = "food"
  /\ pc = "none"
  /\ calls = <<>>
  /\ ending = "none"
  /\ exit_status = -1
  /\ gen = "loop"
  /\ draw = <<0, 0>>
  /\ retried = FALSE
  /\ ticks = 0

\* generate_food: one pass of while True, the two random.randint calls
\* giving cell c; the cell is returned unless it is in self.snake.
generate_food_draw(c) ==
  /\ gen = "loop"
  /\ c \in FoodRange(game_height, game_width)
  /\ draw' = c
  /\ IF c \notin Cells(snake)
       THEN gen' = "done" /\ food' = c /\ retried' = retried
       ELSE gen' = "loop" /\ food' = food /\ retried' = TRUE
  /\ UNCHANGED <<snake, direction, game_over, score, high_score, timeout,
                 running, screen, op, driver, ticks>>

FoodNext == \E c \in AllCells : generate_food_draw(c)

\* random.randint is fair: a cell it can draw is not passed over for ever.
FoodSpec ==
  /\ FoodInit
  /\ [][FoodNext]_vars
  /\ \A c \in AllCells : WF_vars(generate_food_draw(c))

\* ------------------------------------------------------------ draw_border

\* draw_border: the cells on which it puts a glyph: the two horizontal lines
\* over range(self.width - 1), the two vertical lines over
\* range(self.game_height + 2), and the four corners.
draw_border ==
  {<<0, x>> : x \in 0..(width - 2)}
    \cup {<<game_height + 1, x>> : x \in 0..(width - 2)}
    \cup {<<y, 0>> : y \in 0..(game_height + 1)}
    \cup {<<y, game_width + 1>> : y \in 0..(game_height + 1)}
    \cup {<<0, 0>>, <<0, game_width + 1>>,
          <<game_height + 1, 0>>, <<game_height + 1, game_width + 1>>}

\* ---------------------------------------------------------------- claims

\* What the claims say in their own terms, not in the code's.

\* Two directions are opposite when their movement vectors cancel.
Opposite(d, e) ==
  Delta(d)[1] + Delta(e)[1] = 0 /\ Delta(d)[2] + Delta(e)[2] = 0

\* The direction a movement key asks for: arrow keys or W/A/S/D, either case.
Asked(key) ==
  CASE key \in {KEY_UP, 119, 87} -> "UP"
    [] key \in {KEY_DOWN, 115, 83} -> "DOWN"
    [] key \in {KEY_LEFT, 97, 65} -> "LEFT"
    [] key \in {KEY_RIGHT, 100, 68} -> "RIGHT"

Adjacent(p, q) ==
  (p[1] - q[1]) * (p[1] - q[1]) + (p[2] - q[2]) * (p[2] - q[2]) = 1

Max(a, b) == IF a >= b THEN a ELSE b

\* The head a tick computes from the current state.
Target == NewHead(snake, direction)

\* A tick taken while the game is not over.
LiveTick == ~game_over /\ update_snake

\* C1: in every reachable state in which the game is not over, no two
\* positions of the snake are equal.
C1_NoDuplicates ==
  ~game_over =>
    \A i, j \in 1..Len(snake) : i # j => snake[i] # snake[j]

\* A snake of five cells or more has just moved and its head lies beside a
\* segment other than its neck: the snake has bent back along itself.
C1_Witness ==
  /\ ~game_over
  /\ op = "move"
  /\ Len(snake) >= 5
  /\ \E i \in 4..Len(snake) : Adjacent(snake[1], snake[i])

\* C2: while the game is not over, a movement key leaves the direction as it
\* is if it asks for the opposite of the current direction and otherwise sets
\* the direction to the one asked for, whatever calls came before it; and the
\* head a tick adds is the old head moved one cell in that direction.
C2_MoveRule ==
  [][ /\ \A key \in MoveKeys :
           (~game_over /\ handle_input(key)) =>
             direction' = IF Opposite(Asked(key), direction)
                            THEN direction
                            ELSE Asked(key)
      /\ (LiveTick /\ snake' # snake) =>
           snake'[1] = <<snake[1][1] + Delta(direction)[1],
                         snake[1][2] + Delta(direction)[2]>>
    ]_vars

\* Before any tick of the first game the snake, which started RIGHT, was
\* turned UP and then refused DOWN.
C2_Witness ==
  /\ op = "refused"
  /\ direction = "UP"
  /\ snake = StartSnake(game_height, game_width)
  /\ score = 0
  /\ high_score = 0

\* C3: a tick whose new head is the food puts the new head before the whole
\* old snake (length + 1) and adds 10 to the score; every other tick that does
\* not end the game leaves the length and the score as they were.
C3_Growth ==
  [][ LiveTick =>
        IF Target = food
          THEN /\ snake' = <<Target>> \o snake
               /\ Len(snake') = Len(snake) + 1
               /\ score' = score + 10
          ELSE ~game_over' =>
                 /\ Len(snake') = Len(snake)
                 /\ score' = score
    ]_vars

\* The food has just been eaten a second time.
C3_Witness ==
  /\ op = "eat"
  /\ score = 20
  /\ Len(snake) = 5

\* C4 as stated: a tick ends the game at the wall exactly when the new head
\* has row <= 0, row >= game_height - 1, column <= 0 or column >=
\* game_width - 1, and the snake never enters that ring.
C4_AsStated ==
  [][ LiveTick =>
        /\ (op' = "wall") <=>
             \/ Target[1] <= 0
             \/ Target[1] >= game_height - 1
             \/ Target[2] <= 0
             \/ Target[2] >= game_width - 1
        /\ ~game_over' =>
             /\ snake'[1][1] \in 1..(game_height - 2)
             /\ snake'[1][2] \in 1..(game_width - 2)
    ]_vars

\* C4 as amended: a tick ends the game at the wall exactly when the new head
\* has row <= 0, row >= game_height, column <= 0 or column >= game_width, and
\* a tick that does not end the game leaves the head in rows
\* 1..game_height - 1 and columns 1..game_width - 1.
C4_Wall ==
  [][ LiveTick =>
        /\ (op' = "wall") <=>
             \/ Target[1] <= 0
             \/ Target[1] >= game_height
             \/ Target[2] <= 0
             \/ Target[2] >= game_width
        /\ (op' = "wall") => game_over'
        /\ ~game_over' =>
             /\ snake'[1][1] \in 1..(game_height - 1)
             /\ snake'[1][2] \in 1..(game_width - 1)
    ]_vars

\* The game has just ended at the bottom wall with the head on row
\* game_height - 1, a row the snake had entered.
C4_Witness ==
  /\ op = "wall"
  /\ direction = "DOWN"
  /\ snake[1][1] = game_height - 1

\* C5: a tick whose new head is not a wall cell ends the game exactly when
\* the new head is a position of the snake as it was before the tick, its
\* last cell included.
C5_SelfCollision ==
  [][ (LiveTick /\ ~WallCollision(Target, game_height, game_width)) =>
        (game_over' <=> \E i \in 1..Len(snake) : snake[i] = Target)
    ]_vars

\* The game has just ended on the snake's own tail cell.
C5_Witness ==
  /\ op = "self"
  /\ game_over
  /\ Target = snake[Len(snake)]

\* C6: a tick on a game that is over returns at once and changes nothing of
\* the game; game_over goes back to false only by a restart key.
C6_Frozen ==
  [][ /\ (game_over /\ update_snake) =>
           /\ op' = "frozen"
           /\ UNCHANGED <<game, timeout, running, screen>>
      /\ (game_over /\ ~game_over') =>
           /\ op' = "reset"
           /\ \E key \in RestartKeys : handle_input(key)
    ]_vars

\* A game that scored has ended and a further tick was taken.
C6_Witness ==
  /\ op = "frozen"
  /\ game_over
  /\ score > 0

\* C7: right after food is set (construction, reset, a tick that eats), the
\* food is inside the walls and on no position of the snake, new head
\* included.
C7_FoodPlacement ==
  op \in {"init", "reset", "eat"} =>
    /\ food[1] \in 1..(game_height - 1)
    /\ food[2] \in 1..(game_width - 1)
    /\ ~WallCollision(food, game_height, game_width)
    /\ \A i \in 1..Len(snake) : snake[i] # food

\* Food has just been set by a tick that ate, beside the new head.
C7_Witness ==
  /\ op = "eat"
  /\ Len(snake) >= 5
  /\ Adjacent(food, snake[1])

\* C8: no step lowers high_score.
C8_HighScoreMonotone ==
  [][high_score' >= high_score]_vars

\* A later game has just ended below the high score of an earlier one.
C8_Witness ==
  /\ op \in {"wall", "self"}
  /\ score < high_score

\* C9: a tick that ends the game sets game_over and high_score to
\* max(high_score, score) and leaves snake, direction, food and score as they
\* were.
C9_Collision ==
  [][ (LiveTick /\ (game_over' \/ op' \in {"wall", "self"})) =>
        /\ game_over'
        /\ high_score' = Max(high_score, score)
        /\ UNCHANGED <<snake, direction, food, score>>
    ]_vars

\* A game has just ended with a score that became the high score.
C9_Witness ==
  /\ op \in {"wall", "self"}
  /\ score > 0
  /\ high_score = score

\* C10: a restart key pressed while the game is not over changes nothing of
\* the game and the loop goes on; reset_game runs only on a game that is
\* over.
C10_RestartIgnored ==
  [][ /\ \A key \in RestartKeys :
           (~game_over /\ handle_input(key)) =>
             /\ UNCHANGED <<game, timeout, screen>>
             /\ running'
      /\ (op' = "reset") => game_over
    ]_vars

\* A restart key has just been ignored in the middle of a game.
C10_Witness ==
  /\ op = "ignored"
  /\ ~game_over
  /\ score > 0
  /\ Len(snake) = 3 + score \div 10

\* C11: an effective restart leaves a three-cell horizontal snake with its
\* head at (game_height div 2, game_width div 2), direction RIGHT, score 0,
\* game_over false and food newly placed off the snake, and keeps high_score
\* and the screen and game area sizes.
C11_Reset ==
  [][ (\E key \in RestartKeys : game_over /\ handle_input(key)) =>
        /\ snake' = << <<game_height \div 2, game_width \div 2>>,
                       <<game_height \div 2, (game_width \div 2) - 1>>,
                       <<game_height \div 2, (game_width \div 2) - 2>> >>
        /\ direction' = "RIGHT"
        /\ score' = 0
        /\ game_over' = FALSE
        /\ food' \notin Cells(snake')
        /\ ~WallCollision(food', game_height, game_width)
        /\ high_score' = high_score
        /\ UNCHANGED screen
    ]_vars

\* A game that scored has just been restarted, its score now the high score.
C11_Witness ==
  /\ op = "reset"
  /\ score = 0
  /\ high_score >= 20
  /\ Len(snake) = 3

\* C12: in every state the timeout in force is max(50, 100 - score div 50)
\* for the current score.
C12_Interval ==
  timeout = Max(50, 100 - (score \div 50))

\* C13: the food moves only in a tick whose new head is the food and in an
\* effective restart; a tick that eats puts it on another cell than before,
\* off the grown snake.
C13_FoodFrame ==
  [][ /\ (food' # food) =>
           \/ LiveTick /\ Target = food
           \/ \E key \in RestartKeys : game_over /\ handle_input(key)
      /\ (LiveTick /\ Target = food /\ op' = "eat") =>
           /\ food' # food
           /\ food' \notin Cells(snake')
    ]_vars

\* After food was eaten once, a tick has moved the snake past the new food
\* without eating it.
C13_Witness ==
  /\ op = "move"
  /\ score >= 10
  /\ Adjacent(food, snake[2])
  /\ ~Adjacent(food, snake[1])

\* C17: a tick that neither ends the game nor eats turns the snake s into the
\* new head followed by s without its last element: every segment takes the
\* place of the one before it.
C17_Shift ==
  [][ (LiveTick /\ ~game_over' /\ Target # food) =>
        /\ Len(snake') = Len(snake)
        /\ snake'[1] = <<snake[1][1] + Delta(direction)[1],
                         snake[1][2] + Delta(direction)[2]>>
        /\ \A i \in 2..Len(snake) : snake'[i] = snake[i - 1]
    ]_vars

\* A snake of five cells that has turned a corner has just moved.
C17_Witness ==
  /\ op = "move"
  /\ Len(snake) = 5
  /\ snake[1][1] # snake[5][1]
  /\ snake[1][2] # snake[5][2]

\* C18: while the game is over, movement keys, unrecognised keys and no key
\* at all change nothing.
C18_KeysWhenOver ==
  [][ \A key \in MoveKeys \cup {NoKey, OtherKey} :
        (game_over /\ handle_input(key)) =>
          UNCHANGED <<game, timeout, running, screen>>
    ]_vars

\* A key other than quit and restart has just been read on a finished game.
C18_Witness ==
  /\ op = "nokey"
  /\ game_over
  /\ score > 0

\* C19: in every reachable state, any two consecutive positions of the snake
\* are at Manhattan distance 1.
C19_Adjacent ==
  \A i \in 1..(Len(snake) - 1) :
    LET dy == snake[i][1] - snake[i + 1][1]
        dx == snake[i][2] - snake[i + 1][2]
    IN (IF dy >= 0 THEN dy ELSE -dy) + (IF dx >= 0 THEN dx ELSE -dx) = 1

\* A snake of six cells with two bends has just moved.
C19_Witness ==
  /\ op = "move"
  /\ Len(snake) >= 6
  /\ snake[1][1] = snake[Len(snake)][1]
  /\ \E i \in 2..(Len(snake) - 1) : snake[i][1] # snake[1][1]

\* C14: a call of generate_food whose draws are fair returns whenever some
\* cell inside the walls is not a cell of the snake.
C14_Terminates ==
  (gen = "loop" /\ Inside(game_height, game_width) \ Cells(snake) # {})
    ~> (gen = "done")

\* generate_food has returned the only free cell after drawing snake cells.
C14_Witness ==
  /\ gen = "done"
  /\ retried
  /\ Inside(game_height, game_width) \ Cells(snake) = {food}

\* C15: a quit key read by the loop, game over or not, changes nothing of the
\* game and ends the loop at once; nothing runs after the loop has ended.
C15_Quit ==
  [][ /\ pc # "exited"
      /\ \A key \in QuitKeys :
           (pc = "input" /\ handle_input(key)) =>
             /\ UNCHANGED <<game, timeout, screen>>
             /\ pc' = "exited"
             /\ ending' = "quit"
    ]_vars

\* The loop has ended on a quit key in the middle of a game that had scored.
C15_Witness ==
  /\ pc = "exited"
  /\ ending = "quit"
  /\ ~game_over
  /\ score > 0
  /\ calls = <<"poll">>

\* C16: the exit status is 0 after a quit and after an interrupt, and not 0
\* after a failure of the screen caught in main.
C16_ExitStatus ==
  pc = "exited" =>
    /\ ending \in {"quit", "interrupt"} => exit_status = 0
    /\ ending = "error" => exit_status # 0

\* C20: the calls of an iteration of run are a poll, then a tick, then a
\* render, each once and in this order; a new iteration starts only after a
\* whole one, and a quit ends the loop right after the poll.
C20_IterationOrder ==
  /\ \E n \in 0..3 : calls = SubSeq(<<"poll", "tick", "render">>, 1, n)
  /\ pc = "input" => calls \in {<<>>, <<"poll", "tick", "render">>}
  /\ (pc = "update" /\ op # "spin") => calls = <<"poll">>
  /\ (pc = "update" /\ op = "spin") => calls = <<"poll", "tick">>
  /\ pc = "draw" => calls = <<"poll", "tick">>
  /\ (pc = "exited" /\ ending = "quit") => calls = <<"poll">>

\* An iteration in which the snake ate has been completed.
C20_Witness ==
  /\ pc = "input"
  /\ calls = <<"poll", "tick", "render">>
  /\ op = "eat"
  /\ score >= 20

\* C21: no operation blocks for ever: in every state reachable by playing,
\* a tick returns; the snake never eats while it covers every cell food can
\* be put on, which would leave generate_food retrying without end.
C21_TickReturns ==
  op # "spin"

\* C22: in every reachable state, playing or game over, the score is ten
\* times the number of cells the snake has grown by since its three-cell
\* start, so it is a non-negative multiple of 10.
C22_ScoreLength ==
  /\ score = 10 * (Len(snake) - 3)
  /\ score >= 0
  /\ score % 10 = 0

\* A game has ended on the snake's own body after it had eaten at least
\* twice, the score standing with the longer snake while the game is over.
C22_Witness ==
  /\ game_over
  /\ op = "self"
  /\ score >= 20
  /\ Len(snake) >= 5

\* C26: in every reachable state seen between two operations, the game over
\* or not, the food lies on no cell of the snake. (A tick stuck in
\* generate_food has not returned, so its state is not between operations.)
C26_FoodOffSnake ==
  op # "spin" => food \notin Cells(snake)

\* The game is over after at least one food was eaten, and the food placed
\* by the last tick that ate still lies beside the snake's head.
C26_Witness ==
  /\ game_over
  /\ score >= 10
  /\ Adjacent(food, snake[1])
  /\ food \notin Cells(snake)

\* C24: under the loop of run, one handle_input before each update_snake,
\* the direction a tick uses is never the opposite of the direction of the
\* snake's previous move (the step from its second cell to its head), so the
\* head a tick computes is never the second cell of the snake: the snake
\* cannot reverse into its own neck.
C24_NoReversal ==
  (pc = "update" /\ ~game_over) =>
    /\ \A d \in Direction :
         snake[1] = NewHead(<<snake[2]>>, d) => ~Opposite(direction, d)
    /\ Target # snake[2]

\* A tick is about to run right after handle_input refused a key asking for
\* the reverse of the current direction, in a game in which food was eaten.
C24_Witness ==
  /\ pc = "update"
  /\ ~game_over
  /\ op = "refused"
  /\ score >= 10

\* C25: the wall of the collision test is the border that is drawn: a tick
\* of a game not over ends in a wall collision exactly when the cell the head
\* would move to is one on which draw_border puts a glyph, so every cell
\* strictly inside the drawn border can be entered without ending the game.
C25_WallIsBorder ==
  [][LiveTick => ((op' = "wall") <=> (Target \in draw_border))]_vars

\* C23: on every terminal of at least 40 columns by 10 lines, in every
\* reachable state, every cell of the snake has its row in
\* 1..game_height - 1 and its column in 1..game_width - 1; the three cells
\* reset_game lays out are among them.
C23_SnakeInside ==
  (width >= MinColumns /\ height >= MinLines) =>
    \A i \in 1..Len(snake) :
      /\ 1 <= snake[i][1] /\ snake[i][1] <= game_height - 1
      /\ 1 <= snake[i][2] /\ snake[i][2] <= game_width - 1

\* On a terminal main accepts, a game has ended and a restart key has made
\* reset_game lay the three-cell snake out again.
C23_Witness ==
  /\ width >= MinColumns
  /\ height >= MinLines
  /\ op = "reset"
  /\ Len(snake) = 3
  /\ ticks > 0

====
